---- MODULE Spec2Model ----
(***************************************************************************)
(* Multi-stream ingestion transaction coordinator (ingestion-service).     *)
(*                                                                         *)
(* IngestionTransaction drives one pattern through a two-phase commit      *)
(* against three stream processors (A semantic, B visual, C content);      *)
(* TransactionCoordinator.execute_transaction and main.process_pattern     *)
(* drive a batch of patterns under a semaphore.  Every await of the        *)
(* asyncio code is a step boundary; the processors, the checkpoint files   *)
(* and the page fetch are the environment, whose failures are drawn        *)
(* nondeterministically within a fault budget.                             *)
(***************************************************************************)
EXTENDS Integers, Sequences, FiniteSets, TLC

\* ------------------------------------------------------------------ bounds
NumPatterns == 2     \* patterns of the catalog of a batch
Concurrency == 1     \* INGEST_CONCURRENCY of the modelled deployment
MaxRuns == 2         \* runs of the batch (process starts)
MaxBatchFaults == 2  \* environment failures injected in a batch of several patterns
MaxFaults == 2       \* environment failures injected around a single transaction
MaxCalls == 3        \* prepare/commit/rollback calls of a free caller
MaxLiveFaults == 1   \* environment failures injected in the batch checked for progress
NumRecords == 3      \* patterns of the catalog of the batch whose summary is checked
MaxSummaryFaults == 1 \* environment failures injected in that batch

\* every pattern id of the model; a batch takes the first ones of them
Patterns == 1..(IF NumRecords > NumPatterns THEN NumRecords ELSE NumPatterns)

\* commit order, transaction_manager.py line 140 / lines 239-258
STREAMS == <<"A", "B", "C">>
StreamSet == {"A", "B", "C"}

None == "None"

VARIABLES
    pc,                \* position of the coroutine working on the pattern
    op,                \* transaction method in flight or last returned
    retval,            \* what that method returned ("True", "False", None, "RuntimeError")
    phase,             \* TransactionState.phase
    stream_results,    \* TransactionState.stream_results, in dict insertion order
    error,             \* TransactionState.error
    staging,           \* TransactionState.staging_dir: "none", "exists", or
                       \* "left_behind" by a removal that failed
    tasks,             \* the three _prepare_stream tasks of asyncio.gather
    committed_streams, \* local list of commit()
    rb_list,           \* what is left of reversed(committed_streams) in rollback()
    prod,              \* production stores of the three processors, per pattern
    calls,             \* history: processor commit/rollback invocations for the pattern
    nprep,             \* history: number of processor prepare invocations for the pattern
    faults_left,       \* failures the environment may still inject
    gather_order,      \* how the event loop finishes the tasks of a gather
    ncalls,            \* driver calls made so far
    completed_patterns,\* TransactionCoordinator.completed_patterns
    checkpoint,        \* checkpoint file per pattern
    sem,               \* slots of the semaphore in use
    result,            \* what process_pattern returned in this run
    run,               \* number of the current run
    catalog,           \* what the catalog and the page fetch give for the pattern
    at_start           \* history: the pattern's result of the run before and its
                       \* checkpoint phase when this run started

coordvars == <<completed_patterns, checkpoint, sem, result, run, catalog, gather_order,
               at_start>>
vars == <<pc, op, retval, phase, stream_results, error, staging, tasks,
          committed_streams, rb_list, prod, calls, nprep, faults_left, gather_order,
          ncalls, completed_patterns, checkpoint, sem, result, run, catalog, at_start>>

\* ------------------------------------------------- stream_results as a dict
RECURSIVE IndexOf(_, _, _)
IndexOf(d, name, i) ==
    IF i > Len(d) THEN 0
    ELSE IF d[i].stream_name = name THEN i ELSE IndexOf(d, name, i + 1)

Has(d, name) == IndexOf(d, name, 1) # 0

Get(d, name) == d[IndexOf(d, name, 1)]

\* dict[name] = value: a present key keeps its place, a new key goes last
Put(d, name, value) ==
    IF Has(d, name)
    THEN [d EXCEPT ![IndexOf(d, name, 1)] = value]
    ELSE Append(d, value)

Keys(d) == [i \in 1..Len(d) |-> d[i].stream_name]

StatusOf(d, name) == IF Has(d, name) THEN Get(d, name).status ELSE None

StreamResult(name, status, data, err) ==
    [stream_name |-> name, status |-> status, data |-> data, error |-> err]

Reverse(s) == [i \in 1..Len(s) |-> s[Len(s) + 1 - i]]

RECURSIVE SelectNames(_, _)
SelectNames(d, status) ==
    IF d = <<>> THEN <<>>
    ELSE IF Head(d).status = status
         THEN <<Head(d).stream_name>> \o SelectNames(Tail(d), status)
         ELSE SelectNames(Tail(d), status)

\* ------------------------------------------------------------ environment
CanFail == faults_left > 0

\* the event loop finishes the tasks of a gather in any order, or (a batch
\* of several patterns is explored with this schedule only) in the order
\* they were created in
RECURSIVE Position(_, _)
Position(s, i) == IF STREAMS[i] = s THEN i ELSE Position(s, i + 1)

MayFinish(order, t, s) ==
    order = "any" \/ \A i \in 1..(Position(s, 1) - 1) : t[STREAMS[i]] # "pending"

\* what processor.prepare can do: return a payload, return a falsy value, raise
PrepareOutcomes == {"payload", "falsy", "raise"}

\* what processor.prepare hands back for the record when it returns a
\* payload: StreamBProcessor returns {'images': [], 'vectors': []}, with no
\* 'pattern_id', for a page with no <img> (visual.py 45-51)
Payload(kind, s) ==
    IF s = "B" /\ kind = "page_no_images" THEN "empty_payload" ELSE "payload"

\* what processor.commit can do with the staged data; a failing commit of B
\* or C can leave part of its writes behind (visual.py 204-212, content.py
\* 239-248); StreamBProcessor.commit reads prepared_data['pattern_id']
\* before anything else (visual.py 167-170), a KeyError on the payload of a
\* page with no image
CommitOutcomes(s, data) ==
    IF s = "B" /\ data = "empty_payload" THEN {"key_error"}
    ELSE IF s = "A" THEN {"ok", "raise"} ELSE {"ok", "raise", "raise_partial"}

\* the failures of a commit that the environment injects
Injected == {"raise", "raise_partial"}

\* what processor.rollback can do: undo; swallow its own error and return
\* (semantic.py 194-200); raise (a processor that breaks the contract)
RollbackOutcomes == {"ok", "swallowed", "raise"}

Call(o, s, outcome) == [op |-> o, stream |-> s, outcome |-> outcome]

\* ---------------------------------------------------- IngestionTransaction
\* how the rmtree of _cleanup_staging can end: it is tried only when the
\* directory exists, and it can fail
RemovalOutcomes(p) ==
    IF staging[p] # "none" /\ CanFail THEN {TRUE, FALSE} ELSE {TRUE}

\* a cleanup that removes nothing
cleanup_staging_Never(p, removed) == UNCHANGED staging

\* _cleanup_staging: rmtree of the staging directory when it exists; a
\* failure of the removal is logged and swallowed
cleanup_staging(p, removed) ==
    staging' = [staging EXCEPT ![p] =
                   IF @ = "none" \/ removed THEN "none" ELSE "left_behind"]

\* prepare, up to the await of asyncio.gather
prepare_begin(p) ==
    /\ phase' = [phase EXCEPT ![p] = "preparing"]
    /\ staging' = [staging EXCEPT ![p] = "exists"]
    /\ tasks' = [tasks EXCEPT ![p] = [s \in StreamSet |-> "pending"]]
    /\ op' = [op EXCEPT ![p] = "prepare"]
    /\ pc' = [pc EXCEPT ![p] = "gather"]
    /\ retval' = [retval EXCEPT ![p] = None]

\* _prepare_stream: one of the three concurrent tasks runs to its end
prepare_stream(p, s) ==
    /\ pc[p] = "gather"
    /\ tasks[p][s] = "pending"
    /\ MayFinish(gather_order, tasks[p], s)
    /\ \E outcome \in PrepareOutcomes :
        /\ outcome # "payload" => CanFail
        /\ faults_left' = IF outcome = "payload" THEN faults_left ELSE faults_left - 1
        /\ nprep' = [nprep EXCEPT ![p] = @ + 1]
        /\ IF outcome = "raise"
           THEN /\ tasks' = [tasks EXCEPT ![p][s] = "raised"]
                /\ UNCHANGED stream_results
           ELSE /\ tasks' = [tasks EXCEPT ![p][s] = "true"]
                /\ stream_results' = [stream_results EXCEPT ![p] =
                       Put(@, s, StreamResult(s, "prepared",
                               IF outcome = "payload" THEN Payload(catalog[p], s)
                               ELSE outcome, None))]
    /\ UNCHANGED <<pc, op, retval, phase, error, staging, committed_streams,
                   rb_list, prod, calls, ncalls>>
    /\ UNCHANGED coordvars

\* a check of the gather results that lets exceptions through
PrepareFailures_NoExceptions(t) == {s \in StreamSet : t[s] = "false"}

\* which gather results prepare() counts as failures: an exception, or a
\* falsy return of _prepare_stream
PrepareFailures(t) == {s \in StreamSet : t[s] = "raised" \/ t[s] = "false"}

RECURSIVE MarkFailed(_, _, _)
MarkFailed(d, failed, i) ==
    IF i > Len(STREAMS) THEN d
    ELSE IF STREAMS[i] \in failed
         THEN MarkFailed(Put(d, STREAMS[i],
                             StreamResult(STREAMS[i], "failed", None, "prepare_error")),
                         failed, i + 1)
         ELSE MarkFailed(d, failed, i + 1)

\* a gather that hands the first exception to its caller at once
GatherDone_FirstException(t) ==
    (\A s \in StreamSet : t[s] # "pending") \/ (\E s \in StreamSet : t[s] = "raised")

\* asyncio.gather(..., return_exceptions=True) returns when every task has
\* finished, by a return or by an exception
GatherDone(t) == \A s \in StreamSet : t[s] # "pending"

\* prepare, after asyncio.gather returned
prepare_join(p) ==
    /\ pc[p] = "gather"
    /\ GatherDone(tasks[p])
    /\ LET failures == PrepareFailures(tasks[p]) IN
       IF failures # {}
       THEN /\ stream_results' = [stream_results EXCEPT ![p] = MarkFailed(@, failures, 1)]
            /\ phase' = [phase EXCEPT ![p] = "failed"]
            /\ error' = [error EXCEPT ![p] = "prepare_failed"]
            /\ \E removed \in RemovalOutcomes(p) :
                   /\ cleanup_staging(p, removed)
                   /\ faults_left' = IF removed THEN faults_left ELSE faults_left - 1
            /\ retval' = [retval EXCEPT ![p] = "False"]
       ELSE /\ phase' = [phase EXCEPT ![p] = "prepared"]
            /\ retval' = [retval EXCEPT ![p] = "True"]
            /\ UNCHANGED <<stream_results, error, staging, faults_left>>
    /\ pc' = [pc EXCEPT ![p] = "returned"]
    /\ UNCHANGED <<op, tasks, committed_streams, rb_list, prod, calls, nprep, ncalls>>
    /\ UNCHANGED coordvars

\* a precondition that lets a committed transaction commit again
CommitAllowed_AlsoCommitted(ph) == ph \in {"prepared", "committed"}

\* the precondition of commit (lines 228-229)
CommitAllowed(ph) == ph = "prepared"

\* commit, up to the first await
commit_begin(p) ==
    /\ phase' = [phase EXCEPT ![p] = "committing"]
    /\ committed_streams' = [committed_streams EXCEPT ![p] = <<>>]
    /\ op' = [op EXCEPT ![p] = "commit"]
    /\ pc' = [pc EXCEPT ![p] = "commit"]
    /\ retval' = [retval EXCEPT ![p] = None]

\* a commit loop that starts from the last stream
NextToCommit_Reversed(done) == STREAMS[Len(STREAMS) - Len(done)]

\* the stream commit() is about to commit
NextToCommit(done) == STREAMS[Len(done) + 1]

\* a rollback loop that forgets reversed()
RollbackOrder_Forward(list) == list

\* the order the loop of rollback() walks its list in: reversed(...)
RollbackOrder(list) == Reverse(list)

\* a rollback loop that gives up at the first exception
RemainingAfter_Abort(list, outcome) == IF outcome = "raise" THEN <<>> ELSE Tail(list)

\* what the loop of rollback() still has to do after a processor's rollback
\* ended with outcome: an exception is logged and the loop goes on
RemainingAfter(list, outcome) == Tail(list)

\* a rollback that leaves the phase as it finds it
rollback_begin_PhaseKept(p, given) ==
    /\ UNCHANGED phase
    /\ rb_list' = [rb_list EXCEPT ![p] =
           RollbackOrder(IF given = None
                         THEN SelectNames(stream_results[p], "committed")
                         ELSE given)]
    /\ pc' = [pc EXCEPT ![p] = "rollback"]

\* rollback, up to the loop: the list given, or the committed streams of
\* stream_results in dict order (lines 320-327), to be walked in reverse
rollback_begin(p, given) ==
    /\ phase' = [phase EXCEPT ![p] = "rolling_back"]
    /\ rb_list' = [rb_list EXCEPT ![p] =
           RollbackOrder(IF given = None
                         THEN SelectNames(stream_results[p], "committed")
                         ELSE given)]
    /\ pc' = [pc EXCEPT ![p] = "rollback"]

\* _commit_stream for the next stream, and what commit() does with its result
commit_stream(p) ==
    /\ pc[p] = "commit"
    /\ LET s == NextToCommit(committed_streams[p]) IN
       \E outcome \in CommitOutcomes(s, Get(stream_results[p], s).data) :
        /\ outcome \in Injected => CanFail
        /\ calls' = [calls EXCEPT ![p] = Append(@, Call("commit", s, outcome))]
        /\ IF outcome = "ok"
           THEN /\ prod' = [prod EXCEPT ![p][s] = "full"]
                /\ stream_results' = [stream_results EXCEPT ![p] =
                       Put(@, s, [Get(@, s) EXCEPT !.status = "committed"])]
                /\ committed_streams' = [committed_streams EXCEPT ![p] = Append(@, s)]
                /\ IF s = STREAMS[Len(STREAMS)]
                   THEN /\ phase' = [phase EXCEPT ![p] = "committed"]
                        /\ \E removed \in RemovalOutcomes(p) :
                               /\ cleanup_staging(p, removed)
                               /\ faults_left' = IF removed THEN faults_left
                                                 ELSE faults_left - 1
                        /\ pc' = [pc EXCEPT ![p] = "returned"]
                        /\ retval' = [retval EXCEPT ![p] = "True"]
                   ELSE UNCHANGED <<phase, staging, pc, retval, faults_left>>
                /\ UNCHANGED <<error, rb_list>>
           ELSE /\ prod' = [prod EXCEPT ![p][s] =
                       IF outcome = "raise_partial" THEN "partial" ELSE @]
                /\ stream_results' = [stream_results EXCEPT ![p] =
                       Put(@, s, [Get(@, s) EXCEPT !.status = "failed",
                                                   !.error = "commit_error"])]
                /\ error' = [error EXCEPT ![p] = "commit_failed"]
                /\ rollback_begin(p, committed_streams[p])
                /\ faults_left' = IF outcome \in Injected THEN faults_left - 1
                                  ELSE faults_left
                /\ UNCHANGED <<committed_streams, staging, retval>>
    /\ UNCHANGED <<op, tasks, nprep, ncalls>>
    /\ UNCHANGED coordvars

\* one turn of the loop of rollback()
rollback_stream(p) ==
    /\ pc[p] = "rollback"
    /\ rb_list[p] # <<>>
    /\ LET s == Head(rb_list[p]) IN
       IF ~Has(stream_results[p], s)
       THEN \* KeyError on stream_results[stream_name], caught by the loop
            /\ rb_list' = [rb_list EXCEPT ![p] = RemainingAfter(@, "raise")]
            /\ UNCHANGED <<stream_results, prod, calls, faults_left>>
       ELSE \E outcome \in RollbackOutcomes :
            /\ outcome # "ok" => CanFail
            /\ faults_left' = IF outcome = "ok" THEN faults_left ELSE faults_left - 1
            /\ calls' = [calls EXCEPT ![p] = Append(@, Call("rollback", s, outcome))]
            /\ prod' = [prod EXCEPT ![p][s] = IF outcome = "ok" THEN "none" ELSE @]
            /\ stream_results' = [stream_results EXCEPT ![p] =
                   IF outcome = "raise" THEN @
                   ELSE Put(@, s, [Get(@, s) EXCEPT !.status = "rolled_back"])]
            /\ rb_list' = [rb_list EXCEPT ![p] = RemainingAfter(@, outcome)]
    /\ UNCHANGED <<pc, op, retval, phase, error, staging, tasks, committed_streams,
                   nprep, ncalls>>
    /\ UNCHANGED coordvars

\* rollback() after the loop; commit() then returns False
rollback_end(p) ==
    /\ pc[p] = "rollback"
    /\ rb_list[p] = <<>>
    /\ phase' = [phase EXCEPT ![p] = "rolled_back"]
    /\ \E removed \in RemovalOutcomes(p) :
           /\ cleanup_staging(p, removed)
           /\ faults_left' = IF removed THEN faults_left ELSE faults_left - 1
    /\ pc' = [pc EXCEPT ![p] = "returned"]
    /\ retval' = [retval EXCEPT ![p] = IF op[p] = "commit" THEN "False" ELSE None]
    /\ UNCHANGED <<op, stream_results, error, tasks, committed_streams, rb_list,
                   prod, calls, nprep, ncalls>>
    /\ UNCHANGED coordvars

\* ------------------------------------------- a caller of the bare transaction
\* the lists a caller passes to rollback()
RollbackArgs == {None, <<"A", "B">>}

call_prepare(p) ==
    /\ pc[p] = "returned"
    /\ ncalls < MaxCalls
    /\ ncalls' = ncalls + 1
    /\ prepare_begin(p)
    /\ UNCHANGED <<stream_results, error, committed_streams, rb_list, prod, calls,
                   nprep, faults_left>>
    /\ UNCHANGED coordvars

\* commit() can be called at any moment, also while another method of the
\* transaction is suspended at an await
call_commit(p) ==
    /\ ncalls < MaxCalls
    /\ ncalls' = ncalls + 1
    /\ IF CommitAllowed(phase[p])
       THEN /\ pc[p] = "returned"
            /\ commit_begin(p)
            /\ UNCHANGED <<stream_results, error, staging, tasks, rb_list>>
       ELSE /\ retval' = [retval EXCEPT ![p] = "RuntimeError"]
            /\ UNCHANGED <<pc, op, phase, stream_results, error, staging, tasks,
                           committed_streams, rb_list>>
    /\ UNCHANGED <<prod, calls, nprep, faults_left>>
    /\ UNCHANGED coordvars

call_rollback(p) ==
    /\ pc[p] = "returned"
    /\ ncalls < MaxCalls
    /\ ncalls' = ncalls + 1
    /\ \E given \in RollbackArgs : rollback_begin(p, given)
    /\ op' = [op EXCEPT ![p] = "rollback"]
    /\ retval' = [retval EXCEPT ![p] = None]
    /\ UNCHANGED <<stream_results, error, staging, tasks, committed_streams,
                   prod, calls, nprep, faults_left>>
    /\ UNCHANGED coordvars

\* ------------------------------------------------- TransactionCoordinator
\* no checkpoint file for the pattern
NoCheckpoint == [phase |-> None, stream_results |-> <<>>, error |-> None]

\* a to_dict that gives every transaction out as committed
to_dict_AlwaysCommitted(p) ==
    [phase |-> "committed",
     stream_results |-> [i \in 1..Len(stream_results[p]) |->
         [stream_name |-> stream_results[p][i].stream_name,
          status |-> stream_results[p][i].status,
          error |-> stream_results[p][i].error]],
     error |-> error[p]]

\* TransactionState.to_dict: what a checkpoint file holds
to_dict(p) ==
    [phase |-> phase[p],
     stream_results |-> [i \in 1..Len(stream_results[p]) |->
         [stream_name |-> stream_results[p][i].stream_name,
          status |-> stream_results[p][i].status,
          error |-> stream_results[p][i].error]],
     error |-> error[p]]

\* save_state: write the checkpoint file; a failing write is logged and
\* swallowed
save_state(p, written) ==
    /\ ~written => CanFail
    /\ faults_left' = IF written THEN faults_left ELSE faults_left - 1
    /\ checkpoint' = IF written THEN [checkpoint EXCEPT ![p] = to_dict(p)]
                     ELSE checkpoint

\* a save_state that lets the error of a failed write out to its caller
SaveRaises_Propagates(written) == ~written

\* does save_state raise: never, the try block catches every Exception
\* (lines 353-363)
SaveRaises(written) == FALSE

\* a scan that takes a 'prepared' checkpoint for a completed pattern too
load_completed_AlsoPrepared(files) ==
    {p \in Patterns : files[p].phase \in {"prepared", "committed"}}

\* a scan that loads nothing
load_completed_Nothing(files) == {}

\* _load_completed: the patterns whose checkpoint file has phase 'committed'
load_completed(files) ==
    {p \in Patterns : files[p].phase = "committed"}

\* an is_completed that never finds the pattern
is_completed_Never(p) == FALSE

\* is_completed
is_completed(p) == p \in completed_patterns

\* a mark_completed that adds nothing
mark_completed_Forgets(p) == completed_patterns' = completed_patterns

\* mark_completed
mark_completed(p) == completed_patterns' = completed_patterns \cup {p}

\* process_pattern returns res; the transaction it built, but for the last
\* phase, and the record of its processor calls are let go
Return(p, res) ==
    /\ result' = [result EXCEPT ![p] = res]
    /\ pc' = [pc EXCEPT ![p] = "done"]
    /\ op' = [op EXCEPT ![p] = None]
    /\ retval' = [retval EXCEPT ![p] = None]
    /\ stream_results' = [stream_results EXCEPT ![p] = <<>>]
    /\ error' = [error EXCEPT ![p] = None]
    /\ tasks' = [tasks EXCEPT ![p] = [s \in StreamSet |-> "none"]]
    /\ committed_streams' = [committed_streams EXCEPT ![p] = <<>>]
    /\ rb_list' = [rb_list EXCEPT ![p] = <<>>]
    /\ calls' = [calls EXCEPT ![p] = <<>>]

\* a semaphore that lets every task in
SlotFree_Unbounded(used) == TRUE

\* asyncio.Semaphore(concurrency): 'async with sem' goes on while fewer
\* than concurrency tasks are inside, and waits otherwise
SlotFree(used) == used < Concurrency

Acquired(used) == used + 1

\* an exit that keeps the slot
Released_Leaked(used) == used

\* leaving 'async with sem', by return or by exception
Released(used) == used - 1

\* checks that do not ask the coordinator
Precheck_NoCompletedCheck(p) ==
    IF catalog[p] = "no_url" THEN "skip"
    ELSE IF catalog[p] = "empty" THEN "skip"
    ELSE IF catalog[p] = "unreachable" THEN "fail"
    ELSE "go"

\* checks that take an empty page for a failure
Precheck_EmptyFails(p) ==
    IF is_completed(p) THEN "skip"
    ELSE IF catalog[p] = "no_url" THEN "skip"
    ELSE IF catalog[p] = "empty" THEN "fail"
    ELSE IF catalog[p] = "unreachable" THEN "fail"
    ELSE "go"

\* what process_pattern decides before it builds a transaction (lines 97-110)
Precheck(p) ==
    IF is_completed(p) THEN "skip"
    ELSE IF catalog[p] = "no_url" THEN "skip"
    ELSE IF catalog[p] = "empty" THEN "skip"
    ELSE IF catalog[p] = "unreachable" THEN "fail"
    ELSE "go"

\* process_pattern from the semaphore to its first await: the checks, or a
\* new transaction taken into prepare()
process_pattern(p) ==
    /\ pc[p] = "waiting"
    /\ SlotFree(sem)
    /\ IF Precheck(p) # "go"
       THEN /\ Return(p, Precheck(p))
            /\ UNCHANGED <<sem, phase, staging>>
       ELSE /\ sem' = Acquired(sem)
            /\ prepare_begin(p)
            /\ stream_results' = [stream_results EXCEPT ![p] = <<>>]
            /\ error' = [error EXCEPT ![p] = None]
            /\ committed_streams' = [committed_streams EXCEPT ![p] = <<>>]
            /\ rb_list' = [rb_list EXCEPT ![p] = <<>>]
            /\ UNCHANGED <<result, calls>>
    /\ UNCHANGED <<prod, nprep, faults_left, ncalls, completed_patterns,
                   checkpoint, run, catalog, gather_order, at_start>>

\* a caller that does not look at what the method returned
ReturnedFalse_Ignored(rv) == FALSE

\* 'if not await transaction.prepare(...)', 'if not await transaction.commit(...)'
ReturnedFalse(rv) == rv = "False"

\* execute_transaction after prepare() returned: False ends the pattern as
\* 'fail'; True saves the state
after_prepare(p) ==
    /\ pc[p] = "returned"
    /\ op[p] = "prepare"
    /\ IF ReturnedFalse(retval[p])
       THEN /\ Return(p, "fail")
            /\ sem' = Released(sem)
            /\ UNCHANGED <<checkpoint, faults_left>>
       ELSE \E written \in BOOLEAN :
            /\ save_state(p, written)
            /\ IF SaveRaises(written)
               THEN \* caught by execute_transaction (435-437)
                    /\ Return(p, "fail")
                    /\ sem' = Released(sem)
               ELSE /\ pc' = [pc EXCEPT ![p] = "call_commit"]
                    /\ UNCHANGED <<result, sem, op, retval, stream_results, error,
                                   tasks, committed_streams, rb_list, calls>>
    /\ UNCHANGED <<phase, staging, prod, nprep, ncalls, completed_patterns, run, catalog, gather_order, at_start>>

\* execute_transaction calls commit(); a RuntimeError of commit is caught by
\* execute_transaction, which returns False
exec_commit(p) ==
    /\ pc[p] = "call_commit"
    /\ IF CommitAllowed(phase[p])
       THEN /\ commit_begin(p)
            /\ UNCHANGED <<result, sem, stream_results, error, tasks, rb_list, calls>>
       ELSE /\ Return(p, "fail")
            /\ sem' = Released(sem)
            /\ UNCHANGED phase
    /\ UNCHANGED <<staging, prod, nprep, faults_left, ncalls, completed_patterns,
                   checkpoint, run, catalog, gather_order, at_start>>

\* execute_transaction after commit() returned: False ends the pattern as
\* 'fail'; True marks it completed
after_commit(p) ==
    /\ pc[p] = "returned"
    /\ op[p] = "commit"
    /\ IF ReturnedFalse(retval[p])
       THEN /\ Return(p, "fail")
            /\ sem' = Released(sem)
            /\ UNCHANGED completed_patterns
       ELSE /\ mark_completed(p)
            /\ pc' = [pc EXCEPT ![p] = "save_committed"]
            /\ UNCHANGED <<result, sem, op, retval, stream_results, error, tasks,
                           committed_streams, rb_list, calls>>
    /\ UNCHANGED <<phase, staging, prod, nprep, faults_left, ncalls, checkpoint,
                   run, catalog, gather_order, at_start>>

\* execute_transaction saves the state and returns True: 'success'
save_committed(p) ==
    /\ pc[p] = "save_committed"
    /\ \E written \in BOOLEAN :
        /\ save_state(p, written)
        /\ Return(p, IF SaveRaises(written) THEN "fail" ELSE "success")
    /\ sem' = Released(sem)
    /\ UNCHANGED <<phase, staging, prod, nprep, ncalls, completed_patterns, run, catalog, gather_order, at_start>>

\* how far the transaction of the pattern had come when the process ended:
\* its phase was 'committed'; prepare had succeeded, the checkpoint was
\* saved (or its write had failed) and commit had not begun; anything else
Window(p) ==
    IF phase[p] = "committed" THEN "committed"
    ELSE IF pc[p] = "call_commit"
         THEN (IF checkpoint[p] = to_dict(p) THEN "prepared" ELSE "prepared_unsaved")
         ELSE "other"

\* a new process: what was in memory is gone, the checkpoint files, the
\* staging directories and the production stores are as they were left;
\* TransactionCoordinator.__init__ scans the checkpoint files
restart ==
    /\ run < MaxRuns
    /\ run' = run + 1
    /\ completed_patterns' = load_completed(checkpoint)
    /\ pc' = [p \in Patterns |-> IF pc[p] = "idle" THEN "idle" ELSE "waiting"]
    /\ sem' = 0
    /\ result' = [p \in Patterns |-> None]
    /\ op' = [p \in Patterns |-> None]
    /\ retval' = [p \in Patterns |-> None]
    /\ phase' = [p \in Patterns |-> "init"]
    /\ stream_results' = [p \in Patterns |-> <<>>]
    /\ error' = [p \in Patterns |-> None]
    /\ tasks' = [p \in Patterns |-> [s \in StreamSet |-> "none"]]
    /\ committed_streams' = [p \in Patterns |-> <<>>]
    /\ rb_list' = [p \in Patterns |-> <<>>]
    /\ calls' = [p \in Patterns |-> <<>>]
    /\ nprep' = [p \in Patterns |-> 0]
    /\ at_start' = [p \in Patterns |->
                        [result |-> result[p], phase |-> checkpoint[p].phase,
                         window |-> Window(p)]]
    /\ UNCHANGED <<staging, prod, faults_left, ncalls, checkpoint, catalog,
                   gather_order>>

\* run_ingestion is started again once the batch is over
next_run ==
    /\ \A p \in Patterns : pc[p] \in {"done", "idle"}
    /\ restart

\* the process dies in the middle of a batch and run_ingestion is started
\* again
crash ==
    /\ \E p \in Patterns : pc[p] \notin {"done", "idle"}
    /\ restart

\* ----------------------------------------------------------- specifications
InitCommon ==
    /\ op = [p \in Patterns |-> None]
    /\ retval = [p \in Patterns |-> None]
    /\ phase = [p \in Patterns |-> "init"]
    /\ stream_results = [p \in Patterns |-> <<>>]
    /\ error = [p \in Patterns |-> None]
    /\ staging = [p \in Patterns |-> "none"]
    /\ tasks = [p \in Patterns |-> [s \in StreamSet |-> "none"]]
    /\ committed_streams = [p \in Patterns |-> <<>>]
    /\ rb_list = [p \in Patterns |-> <<>>]
    /\ prod = [p \in Patterns |-> [s \in StreamSet |-> "none"]]
    /\ calls = [p \in Patterns |-> <<>>]
    /\ nprep = [p \in Patterns |-> 0]
    /\ ncalls = 0
    /\ completed_patterns = {}
    /\ checkpoint = [p \in Patterns |-> NoCheckpoint]
    /\ sem = 0
    /\ result = [p \in Patterns |-> None]
    /\ run = 1
    /\ at_start = [p \in Patterns |-> [result |-> None, phase |-> None, window |-> None]]

\* one transaction, constructed for pattern 1, in the hands of a free caller
InitTxn ==
    /\ InitCommon
    /\ faults_left = MaxFaults
    /\ gather_order = "any"
    /\ pc = [p \in Patterns |-> IF p = 1 THEN "returned" ELSE "idle"]
    /\ catalog = [p \in Patterns |-> IF p = 1 THEN "page" ELSE "absent"]

NextTxn ==
    \/ call_prepare(1)
    \/ call_commit(1)
    \/ call_rollback(1)
    \/ \E s \in StreamSet : prepare_stream(1, s)
    \/ prepare_join(1)
    \/ commit_stream(1)
    \/ rollback_stream(1)
    \/ rollback_end(1)

SpecTxn == InitTxn /\ [][NextTxn]_vars

\* what the catalog and the page fetch can give for a listed pattern
CatalogKinds == {"page", "no_url", "empty", "unreachable"}

\* one pattern of the catalog taken through process_pattern and
\* execute_transaction, run after run
InitExec ==
    /\ InitCommon
    /\ faults_left = MaxFaults
    /\ gather_order = "any"
    /\ pc = [p \in Patterns |-> IF p = 1 THEN "waiting" ELSE "idle"]
    /\ \E kind \in CatalogKinds \cup {"page_no_images"} :
           catalog = [p \in Patterns |-> IF p = 1 THEN kind ELSE "absent"]

NextExec ==
    \/ process_pattern(1)
    \/ \E s \in StreamSet : prepare_stream(1, s)
    \/ prepare_join(1)
    \/ after_prepare(1)
    \/ exec_commit(1)
    \/ commit_stream(1)
    \/ rollback_stream(1)
    \/ rollback_end(1)
    \/ after_commit(1)
    \/ save_committed(1)
    \/ next_run
    \/ crash

SpecExec == InitExec /\ [][NextExec]_vars

\* the patterns of a batch are interchangeable: a catalog is taken up to
\* the order of its entries
KindRank(kind) ==
    CASE kind = "page" -> 1 [] kind = "no_url" -> 2 [] kind = "empty" -> 3
      [] kind = "unreachable" -> 4

\* the start of a batch of the first n patterns, with budget failures of
\* the environment to come; the coordinator starts with no checkpoint files
StartBatch(n, budget) ==
    /\ InitCommon
    /\ faults_left = budget
    /\ gather_order = "creation"
    /\ pc = [p \in Patterns |-> IF p <= n THEN "waiting" ELSE "idle"]
    /\ \E kinds \in [1..n -> CatalogKinds] :
        /\ \A p, q \in 1..n : p < q => KindRank(kinds[p]) <= KindRank(kinds[q])
        /\ catalog = [p \in Patterns |-> IF p <= n THEN kinds[p] ELSE "absent"]

\* a batch of NumPatterns patterns
Init == StartBatch(NumPatterns, MaxBatchFaults)

Next ==
    \/ \E p \in Patterns : process_pattern(p)
    \/ \E p \in Patterns, s \in StreamSet : prepare_stream(p, s)
    \/ \E p \in Patterns : prepare_join(p)
    \/ \E p \in Patterns : after_prepare(p)
    \/ \E p \in Patterns : exec_commit(p)
    \/ \E p \in Patterns : commit_stream(p)
    \/ \E p \in Patterns : rollback_stream(p)
    \/ \E p \in Patterns : rollback_end(p)
    \/ \E p \in Patterns : after_commit(p)
    \/ \E p \in Patterns : save_committed(p)
    \/ next_run

Spec == Init /\ [][Next]_vars

\* one run of a batch under the event loop: a coroutine that can take a
\* step is resumed sooner or later, and every processor call returns or
\* raises
NextLive ==
    \/ \E p \in Patterns : process_pattern(p)
    \/ \E p \in Patterns, s \in StreamSet : prepare_stream(p, s)
    \/ \E p \in Patterns : prepare_join(p)
    \/ \E p \in Patterns : after_prepare(p)
    \/ \E p \in Patterns : exec_commit(p)
    \/ \E p \in Patterns : commit_stream(p)
    \/ \E p \in Patterns : rollback_stream(p)
    \/ \E p \in Patterns : rollback_end(p)
    \/ \E p \in Patterns : after_commit(p)
    \/ \E p \in Patterns : save_committed(p)

\* a batch as in Init, with the failures of the environment counted by
\* MaxLiveFaults
InitLive == StartBatch(NumPatterns, MaxLiveFaults)

SpecLive == InitLive /\ [][NextLive]_vars /\ WF_vars(NextLive)

\* len(patterns): the patterns the catalog lists
total_patterns == Cardinality({p \in Patterns : catalog[p] # "absent"})

\* a tally that counts every result as a success
success_count_All == Cardinality({p \in Patterns : pc[p] = "done"})

\* the tally of the results of the process_pattern tasks (main.py 133-139)
success_count == Cardinality({p \in Patterns : pc[p] = "done" /\ result[p] = "success"})

skip_count == Cardinality({p \in Patterns : pc[p] = "done" /\ result[p] = "skip"})

failure_count ==
    Cardinality({p \in Patterns : pc[p] = "done" /\ result[p] \notin {"success", "skip"}})

\* one run of a batch of NumRecords patterns, up to the summary
InitSummary == StartBatch(NumRecords, MaxSummaryFaults)

SpecSummary == InitSummary /\ [][NextLive]_vars

\* ------------------------------------------------------------ properties
\* the streams of the entries of log whose operation is o, in order
RECURSIVE StreamsOf(_, _)
StreamsOf(log, o) ==
    IF log = <<>> THEN <<>>
    ELSE IF Head(log).op = o
         THEN <<Head(log).stream>> \o StreamsOf(Tail(log), o)
         ELSE StreamsOf(Tail(log), o)

\* the entries of log whose operation is o, in order
RECURSIVE EntriesOf(_, _)
EntriesOf(log, o) ==
    IF log = <<>> THEN <<>>
    ELSE IF Head(log).op = o
         THEN <<Head(log)>> \o EntriesOf(Tail(log), o)
         ELSE EntriesOf(Tail(log), o)

\* the streams whose commit returned, in the order of the calls
RECURSIVE CommittedOf(_)
CommittedOf(log) ==
    IF log = <<>> THEN <<>>
    ELSE IF Head(log).op = "commit" /\ Head(log).outcome = "ok"
         THEN <<Head(log).stream>> \o CommittedOf(Tail(log))
         ELSE CommittedOf(Tail(log))

Ended(p) == pc[p] = "done" /\ phase[p] \in {"committed", "failed", "rolled_back"}

\* C1: after a transaction has ended, whatever call was made to fail, the
\* production stores of the pattern hold all three streams or none of them
C1_Atomicity ==
    \A p \in Patterns :
        Ended(p) => \/ \A s \in StreamSet : prod[p][s] = "full"
                    \/ \A s \in StreamSet : prod[p][s] = "none"

\* C2: the commit calls of a transaction go A, B, C, each one after the one
\* before it returned successfully, and none follows a commit that failed
C2_CommitOrder ==
    \A p \in Patterns :
        LET commits == EntriesOf(calls[p], "commit") IN
        /\ Len(commits) <= Len(STREAMS)
        /\ \A i \in 1..Len(commits) :
            /\ commits[i].stream = STREAMS[i]
            /\ i < Len(commits) => commits[i].outcome = "ok"
        /\ pc[p] = "commit" => \A i \in 1..Len(commits) : commits[i].outcome = "ok"

\* C2 witness: the commit of B failed after the commit of A, the transaction
\* is over and C was never committed
C2_Witness ==
    \E p \in Patterns :
        /\ pc[p] = "returned" /\ op[p] = "commit"
        /\ Len(EntriesOf(calls[p], "commit")) = 2
        /\ EntriesOf(calls[p], "commit")[2].outcome # "ok"

\* C3: when a commit fails, rollback is invoked on the streams committed
\* before it, last committed first, and on no other stream
C3_RollbackOrder ==
    \A p \in Patterns :
        LET done == CommittedOf(calls[p])
            undone == StreamsOf(calls[p], "rollback")
            commits == EntriesOf(calls[p], "commit")
        IN  /\ Len(undone) <= Len(done)
            /\ \A i \in 1..Len(undone) : undone[i] = done[Len(done) + 1 - i]
            /\ undone # <<>> => commits[Len(commits)].outcome # "ok"
            /\ (pc[p] = "returned" /\ op[p] = "commit" /\ retval[p] = "False")
                   => Len(undone) = Len(done)

\* C3 witness: the third commit failed, and rollback went to B and then to A
C3_Witness ==
    \E p \in Patterns :
        /\ pc[p] = "returned" /\ op[p] = "commit" /\ retval[p] = "False"
        /\ StreamsOf(calls[p], "commit") = <<"A", "B", "C">>
        /\ StreamsOf(calls[p], "rollback") = <<"B", "A">>

\* C4: when a processor's prepare raised, prepare() returns False with the
\* phase at 'failed' and the staging directory removed, and no commit or
\* rollback of a processor is invoked for the transaction
C4_PrepareRaises ==
    \A p \in Patterns :
        /\ (\E s \in StreamSet : tasks[p][s] = "raised") =>
            /\ calls[p] = <<>>
            /\ pc[p] # "gather" =>
                   phase[p] = "failed" /\ retval[p] = "False" /\ staging[p] = "none"
        /\ phase[p] = "failed" => calls[p] = <<>> /\ staging[p] = "none"
        /\ (pc[p] = "done" /\ phase[p] = "failed") => result[p] = "fail"

\* C4 (amended): when a processor's prepare raised, prepare() returns False
\* with the phase at 'failed' and the staging directory removed or, when its
\* removal failed, left behind; no commit or rollback of a processor is
\* invoked for the transaction
C4_PrepareRaisesCleanupTried ==
    \A p \in Patterns :
        /\ (\E s \in StreamSet : tasks[p][s] = "raised") =>
            /\ calls[p] = <<>>
            /\ pc[p] # "gather" =>
                   phase[p] = "failed" /\ retval[p] = "False" /\ staging[p] # "exists"
        /\ phase[p] = "failed" => calls[p] = <<>> /\ staging[p] # "exists"
        /\ (pc[p] = "done" /\ phase[p] = "failed") => result[p] = "fail"

\* C4 witness: prepare() has returned after the prepare of a processor raised
C4_Witness ==
    \E p \in Patterns :
        /\ pc[p] = "returned" /\ op[p] = "prepare"
        /\ \E s \in StreamSet : tasks[p][s] = "raised"

\* C5: when a processor's prepare returned a falsy result, prepare() returns
\* False with the phase at 'failed', and commit is not attempted
C5_FalsyPrepare ==
    \A p \in Patterns :
        (/\ pc[p] \notin {"gather", "done"}
         /\ \E i \in 1..Len(stream_results[p]) : stream_results[p][i].data = "falsy")
        => phase[p] = "failed" /\ retval[p] = "False" /\ calls[p] = <<>>

\* C6: a rollback that raises does not stop the loop: when commit() has
\* returned False every stream committed before has had its rollback
\* invoked, the phase is 'rolled_back', and the pattern ends as a failure
C6_BestEffortRollback ==
    \A p \in Patterns :
        /\ (pc[p] = "returned" /\ op[p] = "commit" /\ retval[p] = "False") =>
            /\ phase[p] = "rolled_back"
            /\ \A i \in 1..Len(CommittedOf(calls[p])) :
                   \E j \in 1..Len(calls[p]) :
                       /\ calls[p][j].op = "rollback"
                       /\ calls[p][j].stream = CommittedOf(calls[p])[i]
        /\ (pc[p] = "done" /\ phase[p] = "rolled_back") => result[p] = "fail"
        /\ (pc[p] = "done" /\ result[p] = "success") => phase[p] = "committed"

\* C6 witness: the rollback of B raised, the rollback of A was invoked after
\* it, and commit() has returned
C6_Witness ==
    \E p \in Patterns :
        /\ pc[p] = "returned" /\ op[p] = "commit" /\ retval[p] = "False"
        /\ Len(calls[p]) = 5
        /\ calls[p][4] = Call("rollback", "B", "raise")
        /\ calls[p][5].op = "rollback" /\ calls[p][5].stream = "A"

\* C7: the loop of rollback() goes through its streams in reverse of commit
\* order (C, then B, then A), also when the list is taken from
\* stream_results
C7_DerivedRollbackOrder ==
    \A p \in Patterns :
        pc[p] = "rollback" =>
            \A i, j \in 1..Len(rb_list[p]) :
                i < j => Position(rb_list[p][i], 1) > Position(rb_list[p][j], 1)

\* C8: a call of commit() on a transaction whose phase is not 'prepared'
\* raises, invokes no processor and leaves the phase, stream_results and
\* the staging directory as they were
C8_CommitRejected ==
    [][\A p \in Patterns :
          (call_commit(p) /\ phase[p] # "prepared") =>
              /\ retval'[p] = "RuntimeError"
              /\ UNCHANGED <<phase, stream_results, staging, calls, nprep, prod, pc>>]_vars

\* C8 witness: commit() was called and raised while the loop of rollback()
\* was at an await
C8_Witness ==
    \E p \in Patterns :
        /\ retval[p] = "RuntimeError"
        /\ phase[p] = "rolling_back"
        /\ calls[p] # <<>>

\* the edges of the state machine of the phase
PhaseEdges ==
    {<<"init", "preparing">>, <<"preparing", "prepared">>, <<"preparing", "failed">>,
     <<"prepared", "committing">>, <<"committing", "committed">>,
     <<"committing", "rolling_back">>, <<"rolling_back", "rolled_back">>}

\* C9: whatever the calls of prepare, commit and rollback on a transaction,
\* every change of its phase is an edge of the state machine
C9_PhaseEdges ==
    [][\A p \in Patterns :
          phase'[p] # phase[p] => <<phase[p], phase'[p]>> \in PhaseEdges]_vars

CrashedAfterPrepare(p) ==
    run > 1 /\ at_start[p].window \in {"prepared", "prepared_unsaved"}

Reprocessed(p) == nprep[p] > 0 \/ calls[p] # <<>> \/ pc[p] \notin {"waiting", "done", "idle"}

InFlight == {p \in Patterns : pc[p] \notin {"waiting", "done", "idle"}}

\* C14: at every moment at most Concurrency patterns are between the start
\* of their prepare and their outcome, and each of them holds one slot
C14_BoundedConcurrency ==
    /\ Cardinality(InFlight) <= Concurrency
    /\ sem = Cardinality(InFlight)

\* C14 witness: every slot is taken and a pattern with a page that is not
\* completed is waiting
C14_Witness ==
    /\ Cardinality(InFlight) = Concurrency
    /\ \E p \in Patterns :
        pc[p] = "waiting" /\ catalog[p] = "page" /\ ~is_completed(p)

C16_CompletedSkipped ==
    [][\A p \in Patterns :
          (pc[p] = "waiting" /\ is_completed(p) /\ pc'[p] # "waiting") =>
              /\ pc'[p] = "done" /\ result'[p] = "skip"
              /\ nprep'[p] = nprep[p] /\ calls'[p] = <<>>
              /\ checkpoint'[p] = checkpoint[p]
              /\ staging'[p] = staging[p]
              /\ prod'[p] = prod[p]
              /\ phase'[p] = "init"]_vars

\* C16 witness: a pattern with a page, completed according to its
\* checkpoint, has been skipped
C16_Witness ==
    \E p \in Patterns :
        /\ is_completed(p) /\ catalog[p] = "page"
        /\ pc[p] = "done" /\ result[p] = "skip"
        /\ nprep[p] = 0 /\ phase[p] = "init"
        /\ checkpoint[p].phase = "committed"

\* no transaction was started for the pattern in this run
NoTransaction(p) == nprep[p] = 0 /\ phase[p] = "init" /\ checkpoint[p] = NoCheckpoint

\* C17: a pattern with no page url, with an empty page, or whose page
\* cannot be fetched ends as 'skip', never as 'fail', and starts no
\* transaction
C17_InputErrorsSkip ==
    \A p \in Patterns :
        (pc[p] = "done" /\ catalog[p] \in {"no_url", "empty", "unreachable"}) =>
            result[p] = "skip" /\ NoTransaction(p)

\* C17 amended: a pattern with no page url or with an empty page ends as
\* 'skip'; a pattern whose page fetch raises ends as 'fail'; neither starts
\* a transaction
C17_InputErrorsSkipOrFail ==
    \A p \in Patterns :
        /\ (pc[p] = "done" /\ catalog[p] \in {"no_url", "empty"}) =>
               result[p] = "skip" /\ NoTransaction(p)
        /\ (pc[p] = "done" /\ catalog[p] = "unreachable") =>
               result[p] = "fail" /\ NoTransaction(p)

\* C17 witness: of two patterns of a batch, the one with the empty page was
\* skipped and the one whose fetch raised was counted as failed
C17_Witness ==
    \E p, q \in Patterns :
        /\ pc[p] = "done" /\ catalog[p] = "empty" /\ result[p] = "skip"
        /\ pc[q] = "done" /\ catalog[q] = "unreachable" /\ result[q] = "fail"

\* the checkpoint file of the pattern names a failed stream and its error
NamesFailedStream(file) ==
    \E i \in 1..Len(file.stream_results) :
        file.stream_results[i].status = "failed" /\ file.stream_results[i].error # None

\* C18: when prepare has failed and the pattern has ended as 'fail', the
\* checkpoint of the pattern shows phase 'failed' and the failing stream
\* with its error
C18_PrepareFailurePersisted ==
    \A p \in Patterns :
        (pc[p] = "done" /\ result[p] = "fail" /\ phase[p] = "failed") =>
            checkpoint[p].phase = "failed" /\ NamesFailedStream(checkpoint[p])

\* C19: when commit has failed and the pattern has ended as 'fail', the
\* checkpoint of the pattern shows phase 'rolled_back' and the failing
\* stream with its error
C19_CommitFailurePersisted ==
    \A p \in Patterns :
        (pc[p] = "done" /\ result[p] = "fail" /\ phase[p] = "rolled_back") =>
            checkpoint[p].phase = "rolled_back" /\ NamesFailedStream(checkpoint[p])

\* execute_transaction has returned for the pattern
Executed(p) == pc[p] = "done" /\ nprep[p] > 0

C21_SaveFailureDoesNotBlock ==
    [][\A p \in Patterns :
          run' = run =>
              /\ (/\ pc[p] = "returned" /\ op[p] = "prepare"
                  /\ ~ReturnedFalse(retval[p]) /\ pc'[p] # pc[p]) =>
                     /\ pc'[p] = "call_commit" /\ result'[p] = None
                     /\ phase'[p] = phase[p]
                     /\ stream_results'[p] = stream_results[p]
                     /\ calls'[p] = calls[p] /\ prod'[p] = prod[p]
                     /\ completed_patterns' = completed_patterns
              /\ (pc[p] = "save_committed" /\ pc'[p] # pc[p]) =>
                     /\ pc'[p] = "done" /\ result'[p] = "success"
                     /\ phase'[p] = phase[p] /\ prod'[p] = prod[p]
                     /\ completed_patterns' = completed_patterns]_vars

\* C21 witness: both writes of the checkpoint failed, and the pattern was
\* committed on all three streams and reported as a success
C21_Witness ==
    \E p \in Patterns :
        /\ pc[p] = "done" /\ result[p] = "success" /\ phase[p] = "committed"
        /\ checkpoint[p] = NoCheckpoint
        /\ \A s \in StreamSet : prod[p][s] = "full"

\* asyncio.gather of the process_pattern tasks has returned
BatchOver == \A p \in Patterns : pc[p] \in {"done", "idle"}

\* a batch of one pattern without content, one that was committed and one
\* whose commit failed and was rolled back
ThreeRecordScenario ==
    /\ total_patterns = 3
    /\ \E p, q, r \in Patterns :
        /\ catalog[r] = "empty"
        /\ catalog[p] = "page" /\ phase[p] = "committed"
        /\ catalog[q] = "page" /\ phase[q] = "rolled_back"

\* C22: at the end of a batch the three counts add up to the number of
\* patterns of the catalog, the success count is the number of
\* transactions that reached 'committed' in this run, and the batch of the
\* three-record scenario gives success 1, skip 1, failure 1
C22_SummaryCounts ==
    BatchOver =>
        /\ success_count + skip_count + failure_count = total_patterns
        /\ success_count = Cardinality({p \in Patterns : phase[p] = "committed"})
        /\ ThreeRecordScenario =>
               success_count = 1 /\ skip_count = 1 /\ failure_count = 1

\* C22 witness: the three-record batch is over
C22_Witness ==
    /\ BatchOver
    /\ ThreeRecordScenario
    /\ success_count = 1 /\ skip_count = 1 /\ failure_count = 1

\* ------------------------------------------------------------------- C23
Terminal == {"committed", "failed", "rolled_back"}

\* the step takes the transaction of the pattern from inside one of its
\* methods to a terminal phase
EntersTerminal(p) ==
    /\ pc[p] \in {"gather", "commit", "rollback"}
    /\ phase[p] \notin Terminal
    /\ phase'[p] \in Terminal

\* C23: a transaction in a terminal phase has no staging directory, and a
\* staging directory is removed only by the step that takes its own
\* transaction to a terminal phase
C23_StagingRemoved ==
    [][\A p \in Patterns :
          /\ phase'[p] \in Terminal => staging'[p] = "none"
          /\ (staging[p] # "none" /\ staging'[p] = "none") => EntersTerminal(p)]_vars

\* C23 (amended): a transaction in a terminal phase has removed its staging
\* directory or has tried to and failed, which leaves the directory behind;
\* a staging directory is removed only by the step that takes a transaction
\* of its pattern to a terminal phase
C23_StagingRemovalTried ==
    [][\A p \in Patterns :
          /\ phase'[p] \in Terminal => staging'[p] # "exists"
          /\ (staging[p] # "none" /\ staging'[p] = "none") => EntersTerminal(p)]_vars

\* C23 witness: a transaction is committed with its staging directory left
\* behind while the transaction of another pattern ended with its directory
\* removed
C23_Witness ==
    \E p, q \in Patterns :
        /\ phase[p] = "committed" /\ staging[p] = "left_behind"
        /\ phase[q] \in Terminal /\ staging[q] = "none" /\ nprep[q] > 0

\* ------------------------------------------------------------------- C24
\* the step is a turn of the loop of rollback() that invoked the rollback of
\* a processor for the pattern
RollbackStep(p) == pc[p] = "rollback" /\ Len(calls'[p]) = Len(calls[p]) + 1

\* C24: a rollback for a record leaves the production data of every other
\* record as it is, and what a run before this one committed for the same
\* record is still in production after it
C24_CompensationConfined ==
    [][\A p \in Patterns :
          RollbackStep(p) =>
              /\ \A q \in Patterns \ {p} : prod'[q] = prod[q]
              /\ at_start[p].window = "committed" =>
                     \A s \in StreamSet : prod'[p][s] # "none"]_vars

\* ------------------------------------------------------------------- C25
\* the step is the commit of a processor failing: commit() goes over to
\* rollback()
CommitFailedStep(p) == pc[p] = "commit" /\ pc'[p] = "rollback"

\* C25: a processor's commit that fails leaves its production store as it
\* found it, so that nothing of the failing stream is left to be rolled back
C25_FailedCommitLeavesNothing ==
    [][\A p \in Patterns : CommitFailedStep(p) => prod'[p] = prod[p]]_vars

\* ------------------------------------------------------------------- C26
\* C26: for a record whose page has no image, the prepare of B stages an
\* empty payload and every commit of B on it returns without an error and
\* writes nothing
C26_NoImageRecord ==
    \A p \in Patterns :
        catalog[p] = "page_no_images" =>
            /\ StatusOf(stream_results[p], "B") \in {"prepared", "committed"} =>
                   Get(stream_results[p], "B").data \in {"empty_payload", "falsy"}
            /\ \A i \in 1..Len(calls[p]) :
                   (calls[p][i].op = "commit" /\ calls[p][i].stream = "B") =>
                       calls[p][i].outcome = "ok" /\ prod[p]["B"] = "none"

\* ------------------------------------------------------------------- C27
\* C27: prepare() returns, and cleans the staging directory, only when the
\* prepare of each of the three processors has finished; a processor's
\* prepare runs only while the staging directory is there; and when
\* prepare() returned True, stream_results holds exactly A, B and C, each
\* with status 'prepared'
C27_PrepareWaitsForAll ==
    [][\A p \in Patterns :
          /\ (pc[p] = "gather" /\ pc'[p] = "returned") =>
                 \A s \in StreamSet : tasks[p][s] # "pending"
          /\ (pc[p] = "gather" /\ staging'[p] # staging[p]) =>
                 \A s \in StreamSet : tasks[p][s] # "pending"
          /\ nprep'[p] = nprep[p] + 1 => staging[p] = "exists" /\ staging'[p] = "exists"
          /\ (pc'[p] = "returned" /\ op'[p] = "prepare" /\ retval'[p] = "True") =>
                 /\ Len(stream_results'[p]) = 3
                 /\ \A s \in StreamSet : StatusOf(stream_results'[p], s) = "prepared"]_vars

\* C27 witness: prepare() returned False after the prepare of A raised, of
\* C returned and of B returned, all three having run
C27_Witness ==
    \E p \in Patterns :
        /\ pc[p] = "returned" /\ op[p] = "prepare" /\ retval[p] = "False"
        /\ tasks[p]["A"] = "raised" /\ nprep[p] = 3
        /\ Keys(stream_results[p]) = <<"C", "B", "A">>

\* ------------------------------------------------------------------- C28
\* the step invoked the commit (the rollback) of a processor for the pattern
Invoked(p, o) ==
    /\ Len(calls'[p]) = Len(calls[p]) + 1
    /\ calls'[p][Len(calls'[p])].op = o

\* C28: the phase of a transaction driven by execute_transaction changes
\* only along init, preparing, then failed or prepared, committing, then
\* committed or rolling_back, rolled_back (a new run builds a new
\* transaction, at init); a processor's commit is invoked only in phase
\* 'committing' and a processor's rollback only in phase 'rolling_back'
C28_ExecutePhaseSequence ==
    [][\A p \in Patterns :
          /\ phase'[p] # phase[p] =>
                 \/ <<phase[p], phase'[p]>> \in PhaseEdges
                 \/ run' = run + 1 /\ phase'[p] = "init"
          /\ Invoked(p, "commit") => phase[p] = "committing"
          /\ Invoked(p, "rollback") => phase[p] = "rolling_back"]_vars

\* C28 witness: a transaction has gone all the way to 'rolled_back', with
\* two commits rolled back, and another run has started after it
C28_Witness ==
    \E p \in Patterns :
        /\ run > 1 /\ at_start[p].result = "fail"
        /\ phase[p] = "rolled_back"
        /\ StreamsOf(calls[p], "rollback") = <<"B", "A">>

\* ------------------------------------------------------------------- C29
\* C29: a checkpoint file with phase 'committed' records A, B and C with
\* status 'committed'; it is written only for a transaction in phase
\* 'committed', after the commits of A, B and C, and nothing else, were
\* invoked on the processors and returned
C29_CommittedCheckpoint ==
    [][\A p \in Patterns :
          /\ checkpoint'[p].phase = "committed" =>
                 /\ Len(checkpoint'[p].stream_results) = 3
                 /\ \A s \in StreamSet :
                        StatusOf(checkpoint'[p].stream_results, s) = "committed"
          /\ (checkpoint'[p] # checkpoint[p] /\ checkpoint'[p].phase = "committed") =>
                 /\ phase[p] = "committed"
                 /\ CommittedOf(calls[p]) = <<"A", "B", "C">>
                 /\ Len(calls[p]) = 3]_vars

\* C29 witness: the checkpoint of a pattern that ended as 'success' is on
\* disk with phase 'committed'
C29_Witness ==
    \E p \in Patterns :
        /\ pc[p] = "done" /\ result[p] = "success"
        /\ checkpoint[p].phase = "committed"
        /\ \A s \in StreamSet : prod[p][s] = "full"

\* ------------------------------------------------------------------- C30
\* rollback() has returned inside commit() and the transaction is still in
\* the hands of execute_transaction
RolledBack(p) == pc[p] = "returned" /\ phase[p] = "rolled_back"

\* the statuses of the streams after a rollback: 'rolled_back' exactly for
\* the streams whose rollback was invoked and returned, 'committed' for a
\* stream whose rollback raised, 'failed' with an error for the stream
\* whose commit failed
RollbackStatuses(p) ==
    /\ \A s \in StreamSet :
           StatusOf(stream_results[p], s) = "rolled_back" <=>
               \E i \in 1..Len(calls[p]) :
                   calls[p][i] \in {Call("rollback", s, "ok"), Call("rollback", s, "swallowed")}
    /\ \A i \in 1..Len(calls[p]) :
           /\ (calls[p][i].op = "rollback" /\ calls[p][i].outcome = "raise") =>
                  StatusOf(stream_results[p], calls[p][i].stream) = "committed"
           /\ (calls[p][i].op = "commit" /\ calls[p][i].outcome # "ok") =>
                  /\ StatusOf(stream_results[p], calls[p][i].stream) = "failed"
                  /\ Get(stream_results[p], calls[p][i].stream).error # None

\* C30: after a transaction ended as 'rolled_back' the statuses of its
\* streams are those of RollbackStatuses, and no stream shown as
\* 'rolled_back' has data left in production: the orphaned streams are the
\* ones shown as 'committed' or 'failed'
C30_RollbackStatuses ==
    \A p \in Patterns :
        RolledBack(p) =>
            /\ RollbackStatuses(p)
            /\ \A s \in StreamSet :
                   StatusOf(stream_results[p], s) = "rolled_back" => prod[p][s] = "none"
====
